---- MODULE Spec2Model ----
(***************************************************************************)
(* Model of actions.py: the LocationStore (load, list_titles, _get_by_key, *)
(* resolve) and the ActionSendLocation.run handler.                        *)
(*                                                                         *)
(* Strings are sequences of characters; a character is a one-letter TLA+   *)
(* string.  The non-ASCII literals of actions.py are UTF-8 Cyrillic shown  *)
(* through a Mac Roman decoding; they are modelled as the Cyrillic text    *)
(* whose bytes they are.  A Cyrillic letter is written "cy_x" (lower case) *)
(* or "CY_X" (upper case) with x its transliteration, and the en dash of   *)
(* the building pattern is written "endash".                               *)
(***************************************************************************)
EXTENDS Integers, Sequences, FiniteSets, TLC

VARIABLES places, alias_to_key, loadStatus, config, slot, slotSetBy, call

vars == <<places, alias_to_key, loadStatus, config, slot, slotSetBy, call>>

(***************************************************************************)
(* Python values: None, and str.                                           *)
(***************************************************************************)
PyNone == [t |-> "none"]

PyStr(s) == [t |-> "str", s |-> s]

\* A dict lookup that found no entry, before .get's default is applied.
Absent == [t |-> "absent"]

\* bool(v) for v None or a str: `if not place_text`, `x or ""`.
Truthy(v) == v.t = "str" /\ v.s # <<>>

\* str(v): str(None) is the four letters "None"; str of a str is itself.
Str(v) == IF v.t = "none" THEN <<"N", "o", "n", "e">> (* None *) ELSE v.s

\* d.get(name, "") on a YAML mapping d: the default only when the name is absent.
GetOrEmpty(v) == IF v.t = "absent" THEN <<>> ELSE Str(v)

(***************************************************************************)
(* str.strip() and str.lower()                                             *)
(***************************************************************************)
Whitespace == {" ", "\t"}

Digits == {"0", "1", "2", "3", "4", "5", "6", "7", "8", "9"}

LowerOf ==
  ("A" :> "a") @@ ("B" :> "b") @@ ("C" :> "c") @@ ("D" :> "d") @@ ("E" :> "e") @@
  ("F" :> "f") @@ ("G" :> "g") @@ ("H" :> "h") @@ ("I" :> "i") @@ ("J" :> "j") @@
  ("K" :> "k") @@ ("L" :> "l") @@ ("M" :> "m") @@ ("N" :> "n") @@ ("O" :> "o") @@
  ("P" :> "p") @@ ("Q" :> "q") @@ ("R" :> "r") @@ ("S" :> "s") @@ ("T" :> "t") @@
  ("U" :> "u") @@ ("V" :> "v") @@ ("W" :> "w") @@ ("X" :> "x") @@ ("Y" :> "y") @@
  ("Z" :> "z") @@
  ("CY_A" :> "cy_a") @@ ("CY_B" :> "cy_b") @@ ("CY_G" :> "cy_g") @@
  ("CY_D" :> "cy_d") @@ ("CY_ZH" :> "cy_zh") @@ ("CY_I" :> "cy_i") @@
  ("CY_J" :> "cy_j") @@ ("CY_L" :> "cy_l") @@ ("CY_M" :> "cy_m") @@
  ("CY_O" :> "cy_o") @@ ("CY_R" :> "cy_r") @@ ("CY_S" :> "cy_s") @@
  ("CY_T" :> "cy_t") @@ ("CY_U" :> "cy_u") @@ ("CY_SH" :> "cy_sh")

UpperChars == DOMAIN LowerOf

LowerChar(c) == IF c \in UpperChars THEN LowerOf[c] ELSE c

\* s.lower()
RECURSIVE Lower(_)
Lower(s) == IF s = <<>> THEN <<>> ELSE <<LowerChar(Head(s))>> \o Lower(Tail(s))

\* s.lstrip(), s.rstrip(), s.strip()
RECURSIVE LStrip(_)
LStrip(s) == IF s # <<>> /\ Head(s) \in Whitespace THEN LStrip(Tail(s)) ELSE s

RECURSIVE RStrip(_)
RStrip(s) ==
  IF s # <<>> /\ s[Len(s)] \in Whitespace THEN RStrip(SubSeq(s, 1, Len(s) - 1)) ELSE s

Strip(s) == RStrip(LStrip(s))

(***************************************************************************)
(* `x in t` on strings, and the regular expressions of resolve             *)
(***************************************************************************)
\* t[p .. p + Len(w) - 1] = w
StartsAt(t, p, w) ==
  /\ p >= 1
  /\ p + Len(w) - 1 <= Len(t)
  /\ \A k \in 1..Len(w) : t[p + k - 1] = w[k]

\* w in t
Contains(t, w) == \E p \in 1..(Len(t) + 1) : StartsAt(t, p, w)

\* re.search(rf"(^|\D){n}(\D|$)", t) for a one-digit n
BoundedDigit(t, n) ==
  \E i \in 1..Len(t) :
    /\ t[i] = n
    /\ (i = 1 \/ t[i - 1] \notin Digits)
    /\ (i = Len(t) \/ t[i + 1] \notin Digits)

\* The positions a match can stand at after \s* from a position of P.
SkipSpace(t, P) ==
  {q \in 1..(Len(t) + 1) :
     \E p \in P : p <= q /\ \A k \in p..(q - 1) : t[k] \in Whitespace}

\* The positions after an optional occurrence of one of the words W.
SkipOptional(t, P, W) ==
  P \cup {q \in 1..(Len(t) + 1) :
            \E p \in P, w \in W : q = p + Len(w) /\ StartsAt(t, p, w)}

BuildingDigits == {"1", "2", "3", "4", "5"}

\* Whether ([1-5])\s*[-en dash]?\s*(r|r\.|dugaar)?\s*bajr matches with its digit at i.
BuildingMatchAt(t, i) ==
  /\ i \in 1..Len(t)
  /\ t[i] \in BuildingDigits
  /\ LET p1 == SkipSpace(t, {i + 1})
         p2 == SkipOptional(t, p1, {<<"-">>, <<"endash">>})
         p3 == SkipSpace(t, p2)
         p4 == SkipOptional(t, p3, {<<"cy_r">>, <<"cy_r", ".">> (* р. *), <<"cy_d", "cy_u", "cy_g", "cy_a", "cy_a", "cy_r">> (* дугаар *)})
         p5 == SkipSpace(t, p4)
     IN  \E p \in p5 : StartsAt(t, p, <<"cy_b", "cy_a", "cy_j", "cy_r">> (* байр *))

\* m = re.search(...): whether there is a match
BuildingMatch(t) == \E i \in 1..Len(t) : BuildingMatchAt(t, i)

\* m.group(1): the digit of the leftmost match
BuildingGroup1(t) ==
  t[CHOOSE i \in 1..Len(t) :
      BuildingMatchAt(t, i) /\ \A j \in 1..(i - 1) : ~BuildingMatchAt(t, j)]

(***************************************************************************)
(* LocationStore                                                           *)
(***************************************************************************)
\* Place(key=..., title=..., query=..., aliases=..., url=...)
Place(key, title, query, aliases, url) ==
  [key |-> key, title |-> title, query |-> query, aliases |-> aliases, url |-> url]

\* Mutant of SetAlias: setdefault, the first entry to register an alias keeps it.
SetAlias_KeepFirst(aliases, a, key) ==
  IF a \in DOMAIN aliases THEN aliases ELSE (a :> key) @@ aliases

\* self._alias_to_key[a] = key: a later assignment replaces an earlier one.
SetAlias(aliases, a, key) == (a :> key) @@ aliases

\* The loop over one entry's aliases, from its i-th; st = [clean, map].
RECURSIVE CleanAliases(_, _, _, _)
CleanAliases(al, i, key, st) ==
  IF i > Len(al) THEN st
  ELSE LET a2 == Lower(Strip(Str(al[i])))
       IN  IF a2 # <<>>
           THEN CleanAliases(al, i + 1, key,
                  [clean |-> Append(st.clean, a2), map |-> SetAlias(st.map, a2, key)])
           ELSE CleanAliases(al, i + 1, key, st)

\* item.get("aliases") or []
AliasesOf(item) == IF item.aliases.t = "list" THEN item.aliases.v ELSE <<>>

\* str(item.get("url", "")).strip() or None
UrlOf(item) ==
  LET u == Strip(GetOrEmpty(item.url))
  IN  IF u = <<>> THEN PyNone ELSE PyStr(u)

\* The body of load's loop, from the i-th item; st = [places, map, error].
\* An item that is no mapping has no .get: AttributeError leaves the loop.
RECURSIVE LoadItems(_, _, _)
LoadItems(items, i, st) ==
  IF i > Len(items) THEN st
  ELSE LET item == items[i] IN
    IF item.t # "map" THEN [st EXCEPT !.error = TRUE]
    ELSE LET key   == Strip(GetOrEmpty(item.key))
             title == Strip(GetOrEmpty(item.title))
             query == Strip(GetOrEmpty(item.query))
         IN IF ~(key # <<>> /\ title # <<>> /\ query # <<>>)
            THEN LoadItems(items, i + 1, st)
            ELSE LET c == CleanAliases(AliasesOf(item), 1, key,
                                       [clean |-> <<>>, map |-> st.map])
                 IN  LoadItems(items, i + 1,
                       [places |-> Append(st.places,
                                    Place(key, title, query, c.clean, UrlOf(item))),
                        map    |-> SetAlias(c.map, Lower(title), key),
                        error  |-> FALSE])

EmptyStore == [places |-> <<>>, map |-> <<>>, error |-> FALSE]

\* What `for item in (data.get("places") or [])` iterates over, data a mapping:
\* nothing for a missing, null or empty value, the elements of a list, the
\* characters of a str; an int is not iterable (TypeError).
ItemsOf(p) ==
  CASE p.t = "list" -> p.v
    [] p.t = "str"  -> [i \in 1..Len(p.s) |-> PyStr(<<p.s[i]>>)]
    [] OTHER        -> <<>>

\* load() on the file content cfg, after the two tables are emptied.
\*   nofile      os.path.exists is false: return
\*   unparsable  yaml.safe_load raises
\*   doc         the loaded document: None, a str, a list or a mapping
LoadResult(cfg) ==
  CASE cfg.t = "nofile"     -> EmptyStore
    [] cfg.t = "unparsable" -> [EmptyStore EXCEPT !.error = TRUE]
    [] cfg.t = "doc" ->
         LET doc == cfg.doc IN
         CASE doc.t = "none"                   -> EmptyStore
           [] doc.t = "str"  /\ doc.s = <<>>   -> EmptyStore
           [] doc.t = "list" /\ doc.v = <<>>   -> EmptyStore
           [] doc.t \in {"str", "list"}        -> [EmptyStore EXCEPT !.error = TRUE]
           [] doc.t = "map" ->
                IF doc.places.t = "int" /\ doc.places.n # 0
                THEN [EmptyStore EXCEPT !.error = TRUE]
                ELSE LoadItems(ItemsOf(doc.places), 1, EmptyStore)

\* list_titles()
ListTitlesOf(ps) == [i \in 1..Len(ps) |-> ps[i].title]

\* _get_by_key(key): the first place with the key, or None
GetByKey(ps, key) ==
  IF \E i \in 1..Len(ps) : ps[i].key = key
  THEN ps[CHOOSE i \in 1..Len(ps) :
            ps[i].key = key /\ \A j \in 1..(i - 1) : ps[j].key # key]
  ELSE PyNone

\* Mutant of Normalize: .lower() forgotten.
Normalize_NoLower(text) == Strip(IF Truthy(text) THEN text.s ELSE <<>>)

\* t = (text or "").strip().lower()
Normalize(text) == Lower(Strip(IF Truthy(text) THEN text.s ELSE <<>>))

\* ("dotuur" in t) or ("dorm" in t) or ("dormitory" in t)
HasDormKeyword(t) ==
  Contains(t, <<"cy_d", "cy_o", "cy_t", "cy_u", "cy_u", "cy_r">> (* дотуур *)) \/ Contains(t, <<"d", "o", "r", "m">> (* dorm *)) \/ Contains(t, <<"d", "o", "r", "m", "i", "t", "o", "r", "y">> (* dormitory *))

\* for n in ["1", "2", "3", "4", "5", "6"]
DormScanOrder == <<"1", "2", "3", "4", "5", "6">>

\* re.search(rf"(^|\D){n}(\D|$)", t) or (n in t)
DormDigitMatches(t, n) == BoundedDigit(t, n) \/ Contains(t, <<n>>)

\* Whether the loop over DormScanOrder returns, and the n it returns with.
DormHit(t) == \E i \in 1..Len(DormScanOrder) : DormDigitMatches(t, DormScanOrder[i])

DormDigit(t) ==
  DormScanOrder[CHOOSE i \in 1..Len(DormScanOrder) :
    /\ DormDigitMatches(t, DormScanOrder[i])
    /\ \A j \in 1..(i - 1) : ~DormDigitMatches(t, DormScanOrder[j])]

\* "muis" in Cyrillic in t, or "muis" in t, or "num" in t
MentionsInstitution(t) ==
  Contains(t, <<"cy_m", "cy_u", "cy_i", "cy_s">> (* муис *)) \/ Contains(t, <<"m", "u", "i", "s">> (* muis *)) \/ Contains(t, <<"n", "u", "m">> (* num *))

\* 4) generic mention -> num_main, else None
InstitutionStage(ps, t) ==
  IF MentionsInstitution(t) THEN GetByKey(ps, <<"n", "u", "m", "_", "m", "a", "i", "n">> (* num_main *)) ELSE PyNone

\* 3) building match
BuildingStage(ps, t) ==
  IF BuildingMatch(t)
  THEN GetByKey(ps, <<"n", "u", "m", "_", "b", "u", "i", "l", "d", "i", "n", "g", "_">> (* num_building_ *) \o <<BuildingGroup1(t)>>)
  ELSE InstitutionStage(ps, t)

\* Mutant of DormStage: the building pattern is tried before the dormitory one.
DormStage_BuildingFirst(ps, t) ==
  IF BuildingMatch(t)
  THEN GetByKey(ps, <<"n", "u", "m", "_", "b", "u", "i", "l", "d", "i", "n", "g", "_">> (* num_building_ *) \o <<BuildingGroup1(t)>>)
  ELSE IF HasDormKeyword(t) /\ DormHit(t)
       THEN GetByKey(ps, <<"n", "u", "m", "_", "d", "o", "r", "m", "_">> (* num_dorm_ *) \o <<DormDigit(t)>>)
       ELSE InstitutionStage(ps, t)

\* Mutant of DormStage: a dormitory that is not loaded falls through to the
\* later strategies instead of returning None.
DormStage_FallThrough(ps, t) ==
  IF HasDormKeyword(t) /\ DormHit(t)
       /\ GetByKey(ps, <<"n", "u", "m", "_", "d", "o", "r", "m", "_">> (* num_dorm_ *) \o <<DormDigit(t)>>) # PyNone
  THEN GetByKey(ps, <<"n", "u", "m", "_", "d", "o", "r", "m", "_">> (* num_dorm_ *) \o <<DormDigit(t)>>)
  ELSE BuildingStage(ps, t)

\* 2) dorm match first
DormStage(ps, t) ==
  IF HasDormKeyword(t) /\ DormHit(t)
  THEN GetByKey(ps, <<"n", "u", "m", "_", "d", "o", "r", "m", "_">> (* num_dorm_ *) \o <<DormDigit(t)>>)
  ELSE BuildingStage(ps, t)

\* 1) exact alias match.  `if k` is true of every key load stores: it stores
\* only non-empty keys.
AliasStage(ps, map, t) ==
  IF t \in DOMAIN map /\ map[t] # <<>>
  THEN GetByKey(ps, map[t])
  ELSE DormStage(ps, t)

\* resolve(text)
ResolveIn(ps, map, text) ==
  LET t == Normalize(text)
  IN  IF t = <<>> THEN PyNone ELSE AliasStage(ps, map, t)

(***************************************************************************)
(* google_maps_search_url                                                  *)
(***************************************************************************)
\* quote_plus of one character that is neither unreserved nor a space: the
\* percent-encoding of its UTF-8 bytes.
PercentOf ==
  ("\t" :> <<"%", "0", "9">>) @@
  (":" :> <<"%", "3", "A">>) @@
  ("/" :> <<"%", "2", "F">>) @@
  ("?" :> <<"%", "3", "F">>) @@
  ("=" :> <<"%", "3", "D">>) @@
  ("endash" :> <<"%", "E", "2", "%", "8", "0", "%", "9", "3">>) @@
  ("cy_b" :> <<"%", "D", "0", "%", "B", "1">>) @@
  ("CY_B" :> <<"%", "D", "0", "%", "9", "1">>) @@
  ("cy_a" :> <<"%", "D", "0", "%", "B", "0">>) @@
  ("CY_A" :> <<"%", "D", "0", "%", "9", "0">>) @@
  ("cy_j" :> <<"%", "D", "0", "%", "B", "9">>) @@
  ("CY_J" :> <<"%", "D", "0", "%", "9", "9">>) @@
  ("cy_r" :> <<"%", "D", "1", "%", "8", "0">>) @@
  ("CY_R" :> <<"%", "D", "0", "%", "A", "0">>) @@
  ("cy_d" :> <<"%", "D", "0", "%", "B", "4">>) @@
  ("CY_D" :> <<"%", "D", "0", "%", "9", "4">>) @@
  ("cy_o" :> <<"%", "D", "0", "%", "B", "E">>) @@
  ("CY_O" :> <<"%", "D", "0", "%", "9", "E">>) @@
  ("cy_t" :> <<"%", "D", "1", "%", "8", "2">>) @@
  ("CY_T" :> <<"%", "D", "0", "%", "A", "2">>) @@
  ("cy_u" :> <<"%", "D", "1", "%", "8", "3">>) @@
  ("CY_U" :> <<"%", "D", "0", "%", "A", "3">>) @@
  ("cy_g" :> <<"%", "D", "0", "%", "B", "3">>) @@
  ("CY_G" :> <<"%", "D", "0", "%", "9", "3">>) @@
  ("cy_m" :> <<"%", "D", "0", "%", "B", "C">>) @@
  ("CY_M" :> <<"%", "D", "0", "%", "9", "C">>) @@
  ("cy_i" :> <<"%", "D", "0", "%", "B", "8">>) @@
  ("CY_I" :> <<"%", "D", "0", "%", "9", "8">>) @@
  ("cy_s" :> <<"%", "D", "1", "%", "8", "1">>) @@
  ("CY_S" :> <<"%", "D", "0", "%", "A", "1">>) @@
  ("cy_sh" :> <<"%", "D", "1", "%", "8", "8">>) @@
  ("CY_SH" :> <<"%", "D", "0", "%", "A", "8">>) @@
  ("cy_l" :> <<"%", "D", "0", "%", "B", "B">>) @@
  ("CY_L" :> <<"%", "D", "0", "%", "9", "B">>) @@
  ("cy_zh" :> <<"%", "D", "0", "%", "B", "6">>) @@
  ("CY_ZH" :> <<"%", "D", "0", "%", "9", "6">>)

\* quote_plus(c): a space becomes "+", letters, digits and _.-~ stay.
QuotePlusChar(c) ==
  IF c = " " THEN <<"+">>
  ELSE IF c \in DOMAIN PercentOf THEN PercentOf[c] ELSE <<c>>

RECURSIVE QuotePlus(_)
QuotePlus(s) == IF s = <<>> THEN <<>> ELSE QuotePlusChar(Head(s)) \o QuotePlus(Tail(s))

google_maps_search_url(query) == <<"h", "t", "t", "p", "s", ":", "/", "/", "w", "w", "w", ".", "g", "o", "o", "g", "l", "e", ".", "c", "o", "m", "/", "m", "a", "p", "s", "?", "q", "=">> (* https://www.google.com/maps?q= *) \o QuotePlus(query)

(***************************************************************************)
(* ActionSendLocation.run                                                  *)
(***************************************************************************)
\* The value of the first entity named "place", if there is one.
\* tracker.latest_message.get("entities") or []: None is no entity.
HasPlaceEntity(entities) ==
  entities.t = "list" /\ \E i \in 1..Len(entities.v) : entities.v[i].entity = "place"

FirstPlaceEntity(entities) ==
  entities.v[CHOOSE i \in 1..Len(entities.v) :
    /\ entities.v[i].entity = "place"
    /\ \A j \in 1..(i - 1) : entities.v[j].entity # "place"]

\* Mutant of CandidateText: the entity is looked at before the slot.
CandidateText_EntityFirst(slotValue, message) ==
  LET fromEntity ==
        IF HasPlaceEntity(message.entities)
        THEN FirstPlaceEntity(message.entities).value
        ELSE PyNone
      afterSlot == IF ~Truthy(fromEntity) THEN slotValue ELSE fromEntity
  IN  IF ~Truthy(afterSlot)
      THEN (IF Truthy(message.text) THEN message.text ELSE PyStr(<<>>))
      ELSE afterSlot

\* Mutant of CandidateText: the raw text is used whenever there is one.
CandidateText_TextFirst(slotValue, message) ==
  IF Truthy(message.text) THEN message.text
  ELSE IF Truthy(slotValue) THEN slotValue
  ELSE IF HasPlaceEntity(message.entities)
            /\ Truthy(FirstPlaceEntity(message.entities).value)
       THEN FirstPlaceEntity(message.entities).value
       ELSE PyStr(<<>>)

\* place_text after steps 1) to 3) of run
CandidateText(slotValue, message) ==
  LET afterEntity ==
        IF ~Truthy(slotValue) /\ HasPlaceEntity(message.entities)
        THEN FirstPlaceEntity(message.entities).value
        ELSE slotValue
  IN  IF ~Truthy(afterEntity)
      THEN (IF Truthy(message.text) THEN message.text ELSE PyStr(<<>>))
      ELSE afterEntity

\* The list command's literals.
ListTriggers ==
  {<<"cy_b", "cy_a", "cy_j", "cy_r", "cy_sh", "cy_l", "cy_u", "cy_u", "cy_d">> (* байршлууд *), <<"cy_b", "cy_a", "cy_j", "cy_r", "cy_sh", "cy_i", "cy_l">> (* байршил *), <<"l", "o", "c", "a", "t", "i", "o", "n", "s">> (* locations *), <<"l", "i", "s", "t">> (* list *), <<"cy_zh", "cy_a", "cy_g", "cy_s", "cy_a", "cy_a", "cy_l", "cy_t">> (* жагсаалт *)}

SlotSet(name, value) == [event |-> "slot", name |-> name, value |-> PyStr(value)]

\* Mutant of Reply: no return after the list of titles, so the list trigger is
\* resolved as a place too.
Reply_NoReturnAfterList(ps, map, place_text) ==
  LET listed ==
        IF Normalize(place_text) \in ListTriggers
        THEN <<[kind |-> "list", titles |-> ListTitlesOf(ps)]>>
        ELSE <<>>
      place == ResolveIn(ps, map, place_text)
  IN  IF place = PyNone
      THEN [dispatched |-> listed \o <<[kind |-> "help"]>>, events |-> <<>>]
      ELSE [dispatched |->
              listed \o <<[kind |-> "place", title |-> place.title,
                           url |-> IF Truthy(place.url) THEN place.url.s
                                   ELSE google_maps_search_url(place.query)]>>,
            events |-> <<SlotSet("place", place.title)>>]

\* The reply and the events of run once place_text is known.
Reply(ps, map, place_text) ==
  IF Normalize(place_text) \in ListTriggers
  THEN IF ListTitlesOf(ps) = <<>>
       THEN [dispatched |-> <<[kind |-> "empty"]>>, events |-> <<>>]
       ELSE [dispatched |-> <<[kind |-> "list", titles |-> ListTitlesOf(ps)]>>,
             events |-> <<>>]
  ELSE LET place == ResolveIn(ps, map, place_text) IN
       IF place = PyNone
       THEN [dispatched |-> <<[kind |-> "help"]>>, events |-> <<>>]
       ELSE [dispatched |->
               <<[kind |-> "place", title |-> place.title,
                  url |-> IF Truthy(place.url) THEN place.url.s
                          ELSE google_maps_search_url(place.query)]>>,
             events |-> <<SlotSet("place", place.title)>>]

\* run(dispatcher, tracker, domain): [place_text, dispatched, events]
RunResult(ps, map, slotValue, message) ==
  LET place_text == CandidateText(slotValue, message)
      r == Reply(ps, map, place_text)
  IN  [place_text |-> place_text, dispatched |-> r.dispatched, events |-> r.events]

(***************************************************************************)
(* Inputs: the contents of locations.yml, the texts, the tracker           *)
(***************************************************************************)
MaxEntries == 2

MaxEntities == 2

\* One mapping of the "places" list.
Entry(key, title, query, url, aliases) ==
  [t |-> "map", key |-> key, title |-> title, query |-> query, url |-> url,
   aliases |-> aliases]

List(v) == [t |-> "list", v |-> v]

DormFour ==
  Entry(PyStr(<<"n", "u", "m", "_", "d", "o", "r", "m", "_", "4">> (* num_dorm_4 *)), PyStr(<<"D", "o", "r", "m", " ", "4">> (* Dorm 4 *)), PyStr(<<"d", "o", "r", "m", " ", "4">> (* dorm 4 *)), Absent, Absent)

BuildingFour ==
  Entry(PyStr(<<"n", "u", "m", "_", "b", "u", "i", "l", "d", "i", "n", "g", "_", "4">> (* num_building_4 *)), PyStr(<<"B", "4">> (* B4 *)), PyStr(<<"cy_b", "cy_a", "cy_j", "cy_r", " ", "4">> (* байр 4 *)), Absent, PyNone)

Main ==
  Entry(PyStr(<<" ", "n", "u", "m", "_", "m", "a", "i", "n", " ">> (*  num_main  *)), PyStr(<<"N", "U", "M">> (* NUM *)), PyStr(<<"N", "U", "M", " ", "m", "a", "i", "n">> (* NUM main *)),
        PyStr(<<"h", "t", "t", "p", ":", "/", "/", "u">> (* http://u *)), List(<<PyStr(<<" ", "M", "U", "I", "S", " ">> (*  MUIS  *)), PyStr(<<" ", " ">> (*    *))>>))

Library ==
  Entry(PyStr(<<"l", "i", "b">> (* lib *)), PyStr(<<"L", "i", "b">> (* Lib *)), PyStr(<<"l", "i", "b", "r", "a", "r", "y">> (* library *)), PyNone,
        List(<<PyStr(<<"L", "I", "B">> (* LIB *)), PyStr(<<"D", "o", "r", "m", " ", "4">> (* Dorm 4 *))>>))

\* The key of Library again.
Annex ==
  Entry(PyStr(<<"l", "i", "b">> (* lib *)), PyStr(<<"A", "n", "n", "e", "x">> (* Annex *)), PyStr(<<"a", "n", "n", "e", "x">> (* annex *)), Absent,
        List(<<PyStr(<<"l", "i", "b">> (* lib *))>>))

\* `key:` with nothing after it: YAML's null.
NullKey == Entry(PyNone, PyStr(<<"H", "a", "l", "l">> (* Hall *)), PyStr(<<"h", "a", "l", "l">> (* hall *)), Absent, Absent)

NoTitle ==
  Entry(PyStr(<<"g", "y", "m">> (* gym *)), Absent, PyStr(<<"g", "y", "m">> (* gym *)), Absent, List(<<PyStr(<<"g", "y", "m">> (* gym *))>>))

BlankQuery ==
  Entry(PyStr(<<"p", "o", "o", "l">> (* pool *)), PyStr(<<"P", "o", "o", "l">> (* Pool *)), PyStr(<<" ", "\t">> (*  \t *)), Absent, Absent)

\* An item of the list that is a plain scalar, not a mapping.
ScalarItem == PyStr(<<"l", "i", "b">> (* lib *))

Entries ==
  {DormFour, BuildingFour, Main, Library, Annex, NullKey, NoTitle, BlankQuery,
   ScalarItem}

SeqsUpTo(S, n) == UNION {[1..k -> S] : k \in 0..n}

Doc(d) == [t |-> "doc", doc |-> d]

Mapping(p) == [t |-> "map", places |-> p]

\* Files whose "places" is a list of at most MaxEntries items.
ListConfigs == {Doc(Mapping(List(es))) : es \in SeqsUpTo(Entries, MaxEntries)}

\* No file, a file that is not YAML, and documents of the other shapes.
OtherConfigs ==
  {[t |-> "nofile"], [t |-> "unparsable"],
   Doc(PyNone), Doc(PyStr(<<>>)), Doc(PyStr(<<"p", "l", "a", "c", "e", "s">> (* places *))),
   Doc(List(<<>>)), Doc(List(<<DormFour>>)),
   Doc(Mapping(Absent)), Doc(Mapping(PyNone)), Doc(Mapping(PyStr(<<"l", "i", "b">> (* lib *)))),
   Doc(Mapping([t |-> "int", n |-> 0])), Doc(Mapping([t |-> "int", n |-> 4]))}

Configs == ListConfigs \cup OtherConfigs

\* The texts resolve is called with.
Texts ==
  {PyNone, PyStr(<<>>), PyStr(<<" ", "\t", " ">> (*  \t  *)),
   PyStr(<<"4", "-", "cy_r", " ", "cy_d", "cy_o", "cy_t", "cy_u", "cy_u", "cy_r", " ", "cy_b", "cy_a", "cy_j", "cy_r">> (* 4-р дотуур байр *)), PyStr(<<"4", " ", "d", "o", "r", "m">> (* 4 dorm *)), PyStr(<<"d", "o", "r", "m", " ", "1", "4">> (* dorm 14 *)),
   PyStr(<<"D", "o", "r", "m", " ", "1", " ", "4">> (* Dorm 1 4 *)), PyStr(<<"d", "o", "r", "m", " ", "4", " ", "cy_b", "cy_a", "cy_j", "cy_r">> (* dorm 4 байр *)), PyStr(<<"d", "o", "r", "m">> (* dorm *)),
   PyStr(<<"d", "o", "r", "m", " ", "7", " ", "n", "u", "m">> (* dorm 7 num *)), PyStr(<<"d", "o", "r", "m", "i", "t", "o", "r", "y", " ", "6", "4">> (* dormitory 64 *)), PyStr(<<"CY_D", "CY_O", "CY_T", "CY_U", "CY_U", "CY_R", " ", "4", " ", "CY_B", "CY_A", "CY_J", "CY_R">> (* ДОТУУР 4 БАЙР *)),
   PyStr(<<"2", "-", "cy_r", " ", "cy_b", "cy_a", "cy_j", "cy_r">> (* 2-р байр *)), PyStr(<<"4", " ", "cy_b", "cy_a", "cy_j", "cy_r">> (* 4 байр *)), PyStr(<<"4", " ", "endash", "cy_d", "cy_u", "cy_g", "cy_a", "cy_a", "cy_r", " ", "cy_b", "cy_a", "cy_j", "cy_r">> (* 4 –дугаар байр *)),
   PyStr(<<"4", "-", " ", "CY_R", ".", " ", "CY_B", "cy_a", "cy_j", "cy_r">> (* 4- Р. Байр *)), PyStr(<<"6", "-", "cy_r", " ", "cy_b", "cy_a", "cy_j", "cy_r">> (* 6-р байр *)), PyStr(<<"1", "4", "-", "cy_r", " ", "cy_b", "cy_a", "cy_j", "cy_r">> (* 14-р байр *)),
   PyStr(<<"4", " ", "cy_b", "cy_a", "cy_j", "cy_r", " ", "n", "u", "m">> (* 4 байр num *)), PyStr(<<"cy_b", "cy_a", "cy_j", "cy_r", " ", "4">> (* байр 4 *)),
   PyStr(<<"CY_M", "CY_U", "CY_I", "CY_S">> (* МУИС *)), PyStr(<<"m", "u", "i", "s", " ", "x">> (* muis x *)), PyStr(<<"r", "e", "n", "u", "m">> (* renum *)), PyStr(<<"x", "y", "z">> (* xyz *)),
   PyStr(<<" ", "D", "O", "R", "M", " ", "4", "\t">> (*  DORM 4\t *)), PyStr(<<"D", "o", "r", "m", " ", "4">> (* Dorm 4 *)), PyStr(<<" ", "L", "i", "b", " ">> (*  Lib  *)), PyStr(<<"L", "I", "B">> (* LIB *)),
   PyStr(<<"A", "N", "N", "E", "X">> (* ANNEX *)), PyStr(<<" ", "M", "U", "I", "S", " ">> (*  MUIS  *)), PyStr(<<"B", "4">> (* B4 *)), PyStr(<<"n", "u", "m">> (* num *)),
   PyStr(<<"H", "a", "l", "l">> (* Hall *)), PyStr(<<"g", "y", "m">> (* gym *))}

\* The files, entities and texts the action is run with.
ActionEntries == {DormFour, Main, Library}

ActionConfigs ==
  {[t |-> "nofile"]}
    \cup {Doc(Mapping(List(es))) : es \in SeqsUpTo(ActionEntries, MaxEntries)}

Entity(name, value) == [entity |-> name, value |-> value]

EntityPool ==
  {Entity("place", PyStr(<<" ", "l", "i", "b", " ">> (*  lib  *))), Entity("place", PyNone),
   Entity("time", PyStr(<<"4", " ", "d", "o", "r", "m">> (* 4 dorm *)))}

MessageTexts == {PyNone, PyStr(<<" ", "L", "I", "S", "T", " ">> (*  LIST  *)), PyStr(<<"4", " ", "d", "o", "r", "m">> (* 4 dorm *))}

Messages ==
  {[entities |-> e, text |-> x] :
     e \in {PyNone} \cup {List(es) : es \in SeqsUpTo(EntityPool, MaxEntities)},
     x \in MessageTexts}

\* The values the host gives the "place" slot on its own.
HostSlotValues == {PyNone, PyStr(<<>>), PyStr(<<"CY_ZH", "cy_a", "cy_g", "cy_s", "cy_a", "cy_a", "cy_l", "cy_t">> (* Жагсаалт *)), PyStr(<<"x", "y", "z">> (* xyz *))}

(***************************************************************************)
(* The state machine                                                       *)
(***************************************************************************)
\* The module is single-threaded and synchronous: one call at a time.  call
\* holds the call that has just returned, with what it returned, until the
\* caller takes the result.
Idle == [op |-> "idle"]

\* LocationStore("locations.yml"), before load; a conversation with no slot.
Init ==
  /\ places = <<>>
  /\ alias_to_key = <<>>
  /\ loadStatus = "unloaded"
  /\ config = [t |-> "nofile"]
  /\ slot = PyNone
  /\ slotSetBy = "nobody"
  /\ call = Idle

\* STORE.load(): when the module is imported, and whenever it is called again.
\* It empties both tables before it reads the file.
Load(cfg) ==
  /\ call = Idle
  /\ \E r \in {LoadResult(cfg)} :
       /\ places' = r.places
       /\ alias_to_key' = r.map
       /\ loadStatus' = IF r.error THEN "failed" ELSE "loaded"
       /\ call' = [op |-> "load", raised |-> r.error]
  /\ config' = cfg
  /\ UNCHANGED <<slot, slotSetBy>>

\* STORE.list_titles()
ListTitles ==
  /\ call = Idle
  /\ call' = [op |-> "list_titles", result |-> ListTitlesOf(places)]
  /\ UNCHANGED <<places, alias_to_key, loadStatus, config, slot, slotSetBy>>

\* STORE.resolve(text)
Resolve(text) ==
  /\ call = Idle
  /\ call' = [op |-> "resolve", text |-> text,
              result |-> ResolveIn(places, alias_to_key, text)]
  /\ UNCHANGED <<places, alias_to_key, loadStatus, config, slot, slotSetBy>>

\* ActionSendLocation().run(dispatcher, tracker, domain); the host then applies
\* the returned events to the tracker.  The action exists once the module has
\* been imported, that is once STORE.load() has returned.
Run(message) ==
  /\ call = Idle
  /\ loadStatus = "loaded"
  /\ \E r \in {RunResult(places, alias_to_key, slot, message)} :
       /\ call' = [op |-> "run", slot |-> slot, slotSetBy |-> slotSetBy,
                   message |-> message, place_text |-> r.place_text,
                   dispatched |-> r.dispatched, events |-> r.events]
       /\ slot' = IF r.events # <<>> THEN r.events[1].value ELSE slot
       /\ slotSetBy' = IF r.events # <<>> THEN "action" ELSE slotSetBy
  /\ UNCHANGED <<places, alias_to_key, loadStatus, config>>

\* The host sets or clears the slot itself (a form, a session restart).
HostSetSlot(value) ==
  /\ call = Idle
  /\ loadStatus = "loaded"
  /\ value # slot
  /\ slot' = value
  /\ slotSetBy' = "host"
  /\ UNCHANGED <<places, alias_to_key, loadStatus, config, call>>

\* The caller has taken the result of the last call.
Return ==
  /\ call # Idle
  /\ call' = Idle
  /\ UNCHANGED <<places, alias_to_key, loadStatus, config, slot, slotSetBy>>

\* The store on its own.
Next ==
  \/ \E cfg \in Configs : Load(cfg)
  \/ ListTitles
  \/ \E text \in Texts : Resolve(text)
  \/ Return

Spec == Init /\ [][Next]_vars

\* The action in a conversation.
NextAction ==
  \/ \E cfg \in ActionConfigs : Load(cfg)
  \/ \E message \in Messages : Run(message)
  \/ \E value \in HostSlotValues : HostSetSlot(value)
  \/ Return

SpecAction == Init /\ [][NextAction]_vars

(***************************************************************************)
(* Vocabulary of the properties                                            *)
(***************************************************************************)
\* A string up to letter case and surrounding whitespace.
Canon(x) == Lower(Strip(x))

CanonText(v) == IF v.t = "str" THEN Canon(v.s) ELSE <<>>

NonEmpty(v) == v.t = "str" /\ Len(v.s) > 0

\* The strings a loaded place answers to: its aliases and its title.
Registered(p) == {Canon(p.aliases[i]) : i \in 1..Len(p.aliases)} \cup {Canon(p.title)}

\* The loaded places that answer to the string x, by position.
Registrants(x) == {i \in 1..Len(places) : x \in Registered(places[i])}

Last(S) == CHOOSE i \in S : \A j \in S : j <= i

\* The first-loaded place with the key, as a set (empty when there is none).
FirstKeyed(key) ==
  {places[i] : i \in {k \in 1..Len(places) :
     places[k].key = key /\ \A j \in 1..(k - 1) : places[j].key # key}}

Resolved == call.op = "resolve" /\ loadStatus = "loaded"

DormKeywords == {<<"cy_d", "cy_o", "cy_t", "cy_u", "cy_u", "cy_r">> (* дотуур *), <<"d", "o", "r", "m">> (* dorm *), <<"d", "o", "r", "m", "i", "t", "o", "r", "y">> (* dormitory *)}

MentionsDorm(x) == \E w \in DormKeywords : Contains(x, w)

DormNumbers == <<"1", "2", "3", "4", "5", "6">>

\* The positions in DormNumbers of the digits that occur in x.
DormNumbersIn(x) == {n \in 1..Len(DormNumbers) : Contains(x, <<DormNumbers[n]>>)}

Smallest(S) == CHOOSE n \in S : \A m \in S : n <= m

\* An entry of the file that supplies a value for the field.
Supplies(v) == v.t = "str" /\ Strip(v.s) # <<>>

ValidEntry(e) ==
  e.t = "map" /\ Supplies(e.key) /\ Supplies(e.title) /\ Supplies(e.query)

\* The items of the loaded file's "places" list (none when it has no such list).
FileEntries ==
  IF config.t = "doc" /\ config.doc.t = "map" /\ config.doc.places.t = "list"
  THEN config.doc.places.v ELSE <<>>

(***************************************************************************)
(* C1                                                                      *)
(***************************************************************************)
\* C1 as stated: after load, resolve of any alias or title of a loaded place,
\* in any letter case and with any surrounding whitespace, returns that place.
C1_ResolveReturnsOwner ==
  Resolved =>
    \A i \in Registrants(CanonText(call.text)) : call.result = places[i]

\* C1 amended: resolve of an alias or title of a loaded place P returns the
\* first-loaded place carrying the key of the last-loaded place that registers
\* the string; that place is P when no later-loaded place registers the string
\* and no earlier-loaded place has P's key.
C1_ResolveReturnsLastRegistrantKey ==
  Resolved /\ Registrants(CanonText(call.text)) # {} =>
    LET R == Registrants(CanonText(call.text))
    IN  /\ {call.result} = FirstKeyed(places[Last(R)].key)
        /\ \A i \in R :
             /\ \A j \in R : j <= i
             /\ \A j \in 1..(i - 1) : places[j].key # places[i].key
             => call.result = places[i]

\* resolve was given an alias (not the title) of a loaded place in another
\* letter case and with whitespace around it, and returned that place.
C1_Witness ==
  /\ Resolved
  /\ Len(places) = 2
  /\ call.text.t = "str"
  /\ call.text.s # Canon(call.text.s)
  /\ Strip(call.text.s) # call.text.s
  /\ \E i \in 1..Len(places) :
       /\ call.result = places[i]
       /\ \E k \in 1..Len(places[i].aliases) : places[i].aliases[k] = Canon(call.text.s)
       /\ Canon(call.text.s) # Canon(places[i].title)

(***************************************************************************)
(* C2                                                                      *)
(***************************************************************************)
\* C2 as stated: a text with a dormitory keyword and the digit 4 resolves to
\* the place keyed num_dorm_4 whenever that place is loaded.
C2_DormFourAlways ==
  /\ Resolved
  /\ MentionsDorm(CanonText(call.text))
  /\ Contains(CanonText(call.text), <<"4">>)
  /\ FirstKeyed(<<"n", "u", "m", "_", "d", "o", "r", "m", "_", "4">> (* num_dorm_4 *)) # {}
  => {call.result} = FirstKeyed(<<"n", "u", "m", "_", "d", "o", "r", "m", "_", "4">> (* num_dorm_4 *))

\* C2 amended: a text with a dormitory keyword and the digit 4 that is not
\* itself an alias or title of a loaded place and holds none of the digits 1,
\* 2, 3 resolves to the place keyed num_dorm_4 whenever that place is loaded,
\* also when the text matches the building pattern.
C2_DormFourUnlessAliasOrSmallerDigit ==
  /\ Resolved
  /\ MentionsDorm(CanonText(call.text))
  /\ Contains(CanonText(call.text), <<"4">>)
  /\ FirstKeyed(<<"n", "u", "m", "_", "d", "o", "r", "m", "_", "4">> (* num_dorm_4 *)) # {}
  /\ Registrants(CanonText(call.text)) = {}
  /\ \A d \in {"1", "2", "3"} : ~Contains(CanonText(call.text), <<d>>)
  => {call.result} = FirstKeyed(<<"n", "u", "m", "_", "d", "o", "r", "m", "_", "4">> (* num_dorm_4 *))

\* A text with a dormitory keyword and the digit 4 that also matches the
\* building pattern, with building 4 loaded too, resolved to dormitory 4.
C2_Witness ==
  /\ Resolved
  /\ MentionsDorm(CanonText(call.text))
  /\ BuildingMatch(CanonText(call.text))
  /\ FirstKeyed(<<"n", "u", "m", "_", "b", "u", "i", "l", "d", "i", "n", "g", "_", "4">> (* num_building_4 *)) # {}
  /\ Registrants(CanonText(call.text)) = {}
  /\ {call.result} = FirstKeyed(<<"n", "u", "m", "_", "d", "o", "r", "m", "_", "4">> (* num_dorm_4 *))

(***************************************************************************)
(* C3                                                                      *)
(***************************************************************************)
\* C3 as stated: a string registered by two loaded entries resolves to the
\* later-loaded entry's place.
C3_LaterEntryPlaceWins ==
  Resolved /\ Cardinality(Registrants(CanonText(call.text))) >= 2 =>
    call.result = places[Last(Registrants(CanonText(call.text)))]

\* C3 amended: a string registered by two loaded entries resolves by the
\* later-loaded entry's key: to a place with that key, which is the later
\* entry's own place when no earlier-loaded place has the same key.
C3_LaterEntryKeyWins ==
  Resolved /\ Cardinality(Registrants(CanonText(call.text))) >= 2 =>
    LET j == Last(Registrants(CanonText(call.text)))
    IN  /\ call.result # PyNone
        /\ call.result.key = places[j].key
        /\ (\A k \in 1..(j - 1) : places[k].key # places[j].key)
             => call.result = places[j]

\* Two places with different keys register the string, and resolve returned
\* the later one, which is not the earlier one.
C3_Witness ==
  /\ Resolved
  /\ Registrants(CanonText(call.text)) = {1, 2}
  /\ places[1].key # places[2].key
  /\ call.result = places[2]
  /\ call.result # places[1]

(***************************************************************************)
(* C4                                                                      *)
(***************************************************************************)
\* The file is absent, or its top-level value is no mapping, or the mapping
\* has no "places" list.
MissingOrMalformed ==
  \/ config.t = "nofile"
  \/ config.t = "doc" /\ config.doc.t # "map"
  \/ config.t = "doc" /\ config.doc.t = "map" /\ config.doc.places.t # "list"

\* C4 as stated: load of a missing or malformed configuration completes
\* normally and leaves an empty place list and an empty alias table.
C4_MalformedLoadsEmpty ==
  call.op = "load" /\ MissingOrMalformed =>
    ~call.raised /\ places = <<>> /\ alias_to_key = <<>>

(***************************************************************************)
(* C5                                                                      *)
(***************************************************************************)
\* C5 as stated: after load every place has a non-empty key, title and query;
\* an entry that does not supply one of the three adds no place and no alias,
\* and the other entries are loaded: the table holds exactly the entries that
\* supply all three, in the file's order.
C5_InvalidEntriesSkipped ==
  call.op = "load" =>
    LET good == SelectSeq(FileEntries, ValidEntry)
    IN  /\ \A i \in 1..Len(places) :
             places[i].key # <<>> /\ places[i].title # <<>> /\ places[i].query # <<>>
        /\ Len(places) = Len(good)
        /\ \A i \in 1..Len(places) :
             /\ places[i].key = Strip(good[i].key.s)
             /\ places[i].title = Strip(good[i].title.s)
             /\ places[i].query = Strip(good[i].query.s)
        /\ DOMAIN alias_to_key = UNION {Registered(places[i]) : i \in 1..Len(places)}

\* The part of C5 the code keeps: no loaded place has an empty key, title or
\* query.
C5_LoadedFieldsNonEmpty ==
  \A i \in 1..Len(places) :
    places[i].key # <<>> /\ places[i].title # <<>> /\ places[i].query # <<>>

(***************************************************************************)
(* C6                                                                      *)
(***************************************************************************)
\* C6 as stated: after load of a configuration with no valid entry,
\* list_titles() is empty and resolve returns none for every text.
C6_NoValidEntryNothingResolves ==
  /\ loadStatus = "loaded"
  /\ \A i \in 1..Len(FileEntries) : ~ValidEntry(FileEntries[i])
  => /\ ListTitlesOf(places) = <<>>
     /\ call.op = "list_titles" => call.result = <<>>
     /\ call.op = "resolve" => call.result = PyNone

\* The part of C6 the code keeps: with no place loaded, list_titles() is empty
\* and resolve returns none, whatever pattern the text matches.
C6_EmptyTableNothingResolves ==
  loadStatus = "loaded" /\ places = <<>> =>
     /\ call.op = "list_titles" => call.result = <<>>
     /\ call.op = "resolve" => call.result = PyNone

(***************************************************************************)
(* C7                                                                      *)
(***************************************************************************)
\* The "place" entities of a message, in order.
IsPlaceEntity(e) == e.entity = "place"

PlaceEntities(message) ==
  IF message.entities.t = "list" THEN SelectSeq(message.entities.v, IsPlaceEntity)
  ELSE <<>>

RawText(message) == IF message.text.t = "str" THEN message.text ELSE PyStr(<<>>)

\* C7: the candidate text is the slot when that is non-empty, otherwise the
\* value of the first "place" entity when that is non-empty, otherwise the raw
\* text of the latest message.
C7_CandidatePriority ==
  call.op = "run" =>
    call.place_text =
      IF NonEmpty(call.slot) THEN call.slot
      ELSE IF PlaceEntities(call.message) # <<>>
                /\ NonEmpty(PlaceEntities(call.message)[1].value)
           THEN PlaceEntities(call.message)[1].value
           ELSE RawText(call.message)

\* The slot was empty and the first "place" entity had no value: the raw text
\* was used although a later "place" entity had a value.
C7_Witness ==
  /\ call.op = "run"
  /\ ~NonEmpty(call.slot)
  /\ Len(PlaceEntities(call.message)) = 2
  /\ ~NonEmpty(PlaceEntities(call.message)[1].value)
  /\ NonEmpty(PlaceEntities(call.message)[2].value)
  /\ NonEmpty(call.message.text)
  /\ call.place_text = call.message.text

(***************************************************************************)
(* C8                                                                      *)
(***************************************************************************)
\* C8: every run emits exactly one message and returns at most one event; it
\* returns one event, setting "place" to the resolved title, exactly when the
\* candidate text is no list trigger and resolve returns a place.
C8_OneMessageAtMostOneEvent ==
  call.op = "run" =>
    LET place == ResolveIn(places, alias_to_key, call.place_text)
        resolves == CanonText(call.place_text) \notin ListTriggers /\ place # PyNone
    IN  /\ Len(call.dispatched) = 1
        /\ Len(call.events) <= 1
        /\ Len(call.events) = 1 <=> resolves
        /\ resolves =>
             call.events = <<[event |-> "slot", name |-> "place",
                              value |-> PyStr(place.title)]>>

\* A run that resolved a place: one message, one event.
C8_Witness ==
  /\ call.op = "run"
  /\ Len(call.dispatched) = 1
  /\ call.dispatched[1].kind = "place"
  /\ Len(call.events) = 1
  /\ slot = call.events[1].value

(***************************************************************************)
(* C9                                                                      *)
(***************************************************************************)
\* C9: with no exact alias match, a dormitory keyword and smallest digit n of
\* 1..6 in the text, and no place keyed num_dorm_n, resolve returns none; so
\* does a building-pattern match whose num_building_n place is not loaded.
C9_MissingNumberedPlaceIsNone ==
  Resolved /\ CanonText(call.text) \notin DOMAIN alias_to_key =>
    LET t == CanonText(call.text)
        dorm == MentionsDorm(t) /\ DormNumbersIn(t) # {}
    IN  /\ dorm /\ FirstKeyed(<<"n", "u", "m", "_", "d", "o", "r", "m", "_">> (* num_dorm_ *) \o <<DormNumbers[Smallest(DormNumbersIn(t))]>>) = {}
             => call.result = PyNone
        /\ ~dorm /\ BuildingMatch(t)
                 /\ FirstKeyed(<<"n", "u", "m", "_", "b", "u", "i", "l", "d", "i", "n", "g", "_">> (* num_building_ *) \o <<BuildingGroup1(t)>>) = {}
             => call.result = PyNone

\* The dormitory of the smallest digit is not loaded and resolve returned none,
\* although the dormitory of a larger digit of the text is loaded.
C9_Witness ==
  /\ Resolved
  /\ CanonText(call.text) \notin DOMAIN alias_to_key
  /\ MentionsDorm(CanonText(call.text))
  /\ \E n \in DormNumbersIn(CanonText(call.text)) :
       /\ n # Smallest(DormNumbersIn(CanonText(call.text)))
       /\ FirstKeyed(<<"n", "u", "m", "_", "d", "o", "r", "m", "_">> (* num_dorm_ *) \o <<DormNumbers[n]>>) # {}
  /\ call.result = PyNone

\* The building of the pattern is not loaded and resolve returned none,
\* although the text mentions the institution and num_main is loaded.
C9_WitnessBuilding ==
  /\ Resolved
  /\ CanonText(call.text) \notin DOMAIN alias_to_key
  /\ ~MentionsDorm(CanonText(call.text))
  /\ BuildingMatch(CanonText(call.text))
  /\ MentionsInstitution(CanonText(call.text))
  /\ FirstKeyed(<<"n", "u", "m", "_", "m", "a", "i", "n">> (* num_main *)) # {}
  /\ call.result = PyNone

(***************************************************************************)
(* C10                                                                     *)
(***************************************************************************)
\* C10: once a run has set the slot to a resolved title and only runs change
\* the slot, the message and the events of a run are those of any other
\* latest message: the entities and the raw text have no effect.
C10_SlotAloneDecides ==
  call.op = "run" /\ call.slotSetBy = "action" =>
    \A m \in Messages :
      LET r == RunResult(places, alias_to_key, call.slot, m)
      IN  r.dispatched = call.dispatched /\ r.events = call.events

\* A run after the slot was set by a run, with a latest message that has a
\* "place" entity and a raw text of their own, answered with the slot's place.
C10_Witness ==
  /\ call.op = "run"
  /\ call.slotSetBy = "action"
  /\ NonEmpty(call.message.text)
  /\ PlaceEntities(call.message) # <<>>
  /\ NonEmpty(PlaceEntities(call.message)[1].value)
  /\ PlaceEntities(call.message)[1].value # call.slot
  /\ call.place_text = call.slot
  /\ call.dispatched[1].kind = "place"

====
